---- MODULE Spec2Model ----
(***************************************************************************)
(* Model of binfmt/binfmt_execmodule.c: exec_module(), the launch sequence *)
(* that turns a loaded binary (struct binary_s) into a running task, and   *)
(* exec_ctors(), the start hook that runs the image's static constructors  *)
(* on the new task's thread.                                               *)
(*                                                                         *)
(* Every launcher thread t runs one call of exec_module.  Each C statement *)
(* group between two labels/branches is one action; pc[t] is the position  *)
(* of the call.  The collaborators (allocators, scheduler, address         *)
(* environment) are not part of the file: their results are inputs drawn   *)
(* with \E, and what they do to the state is what the call sites in        *)
(* exec_module rely on.  The three configuration switches of the file      *)
(* (CONFIG_DEBUG, CONFIG_ARCH_ADDRENV, CONFIG_BINFMT_CONSTRUCTORS) are     *)
(* fixed per behaviour by Init.  CONFIG_PIC only rewrites the initial      *)
(* register state of the task and is left out.                             *)
(***************************************************************************)
EXTENDS Integers, Sequences, FiniteSets, TLC

(***************************************************************************)
(* Bounds of the model.                                                    *)
(***************************************************************************)
NumLaunchers == 2
MaxCtors == 2
MaxPid == 2

(***************************************************************************)
(* Program constants.                                                      *)
(***************************************************************************)
OK == 0
ERROR == -1
EINVAL == 22
ENOMEM == 12

Launchers == 1..NumLaunchers
Pids == 1..MaxPid

\* lines 138-145: 'oldenv' and 'pid' are automatic variables of exec_module,
\* so every call in progress has its own instance, in its own stack frame
Frame(t) == t

\* errno values a collaborator may leave behind (EIO, ENOMEM, EAGAIN)
DiagCodes == {5, ENOMEM, 11}

\* return values of up_addrenv_select/clone/restore: OK or a negated errno
AddrenvRets == {OK} \cup {-c : c \in DiagCodes}

\* values of binp->stacksize that are tried
StackSizes == {-1, 0, 1}

\* struct binary_s as exec_module reads it.  null: binp itself is NULL;
\* entrypt: binp->entrypt is non-NULL; nctors: binp->nctors.  The fields of a
\* NULL binp are what a read through the NULL pointer yields.
NullBinp == [null |-> TRUE, entrypt |-> FALSE, stacksize |-> 0, nctors |-> 0]

Binps ==
  [null : {FALSE}, entrypt : BOOLEAN, stacksize : StackSizes, nctors : 0..MaxCtors]

\* the test of line 150 with '<' for '<='
SanityFailsOffByOne(b) == b.null \/ ~b.entrypt \/ b.stacksize < 0

\* line 150: !binp || !binp->entrypt || binp->stacksize <= 0
SanityFails(b) == b.null \/ ~b.entrypt \/ b.stacksize <= 0

\* struct task_tcb_s as exec_module and the scheduler use it.
\*   mem             "none" not allocated, "alloc" allocated, "freed" given back
\*   inited          task_init() succeeded on it
\*   pid             tcb->cmn.pid (0 after kmm_zalloc)
\*   stack_alloc_ptr tcb->cmn.stack_alloc_ptr is non-NULL
\*   entry           the entry point task_init() stored is non-NULL
\*   addrenv         tcb->cmn.group->addrenv holds a clone of binp->addrenv
\*   tg_addrenv      GROUP_FLAG_ADDRENV is set in tcb->cmn.group->tg_flags
\*   starthook       a start hook (exec_ctors) is registered
NoTcb ==
  [mem |-> "none", inited |-> FALSE, pid |-> 0, stack_alloc_ptr |-> FALSE,
   entry |-> FALSE, addrenv |-> FALSE, tg_addrenv |-> FALSE, starthook |-> FALSE]

ZeroTcb == [NoTcb EXCEPT !.mem = "alloc"]

VARIABLES
  config,      \* the build: [debug, addrenv, ctors : BOOLEAN]
  binp,        \* binp[t]: the argument of the call
  pc,          \* pc[t]: position of launcher t in exec_module
  tcb,         \* tcb[t]: the TCB the call allocated
  stack,       \* stack[t]: the local 'stack' is non-NULL
  oldenv,      \* oldenv[t]: the local 'oldenv' ("none" while uninitialised)
  activeenv,   \* activeenv[t]: address environment active on thread t
  heapinit,    \* heapinit[t]: umm_initialize() was called
  pid,         \* pid[t]: the local 'pid'
  err,         \* err[t]: the local 'err'
  errno,       \* errno[t]: the thread's errno
  retval,      \* retval[t]: value returned by exec_module ("none" before)
  failstep,    \* failstep[t]: the step whose failure started the error path
  diag,        \* diag[t]: the diagnostic that step reported
  log,         \* log[t]: collaborator calls made by the call, in order
  unwindrestore, \* unwindrestore[t]: result of up_addrenv_restore() at line 285
  tcbcount,    \* TCBs allocated and not freed (kernel heap)
  stackcount,  \* stacks allocated and not freed (user heap)
  task,        \* task[t]: life of the new task
  actpid,      \* actpid[t]: pid of the TCB handed to task_activate()
  ctori,       \* ctori[t]: 'i' of exec_ctors
  ctorp,       \* ctorp[t]: 'ctor' of exec_ctors, as an index into binp->ctors
  ctorlog,     \* ctorlog[t]: constructors called, in order
  tasklog      \* tasklog[t]: what the new task did, in order

launchvars ==
  <<pc, stack, oldenv, activeenv, heapinit, pid, err, errno, retval, failstep, diag, log,
    unwindrestore>>
taskvars == <<task, actpid, ctori, ctorp, ctorlog, tasklog>>
heapvars == <<tcb, tcbcount, stackcount>>
vars == <<config, binp, launchvars, heapvars, taskvars>>

Configs == [debug : BOOLEAN, addrenv : BOOLEAN, ctors : BOOLEAN]

\* Launcher 1 makes the call, with any argument and in any build; the other
\* launchers stay idle.  No TCB or stack is allocated before the call.
Init ==
  /\ config \in Configs
  /\ binp \in [Launchers -> Binps \cup {NullBinp}]
  /\ \A t \in Launchers : t # 1 => binp[t] = NullBinp
  /\ pc = [t \in Launchers |-> IF t = 1 THEN "start" ELSE "idle"]
  /\ tcb = [t \in Launchers |-> NoTcb]
  /\ stack = [t \in Launchers |-> FALSE]
  /\ oldenv = [t \in Launchers |-> "none"]
  /\ activeenv = [t \in Launchers |-> "caller"]
  /\ heapinit = [t \in Launchers |-> FALSE]
  /\ pid = [t \in Launchers |-> 0]
  /\ err = [t \in Launchers |-> 0]
  /\ errno = [t \in Launchers |-> 0]
  /\ retval = [t \in Launchers |-> "none"]
  /\ failstep = [t \in Launchers |-> "none"]
  /\ diag = [t \in Launchers |-> 0]
  /\ log = [t \in Launchers |-> <<>>]
  /\ unwindrestore = [t \in Launchers |-> "none"]
  /\ tcbcount = 0
  /\ stackcount = 0
  /\ task = [t \in Launchers |-> "none"]
  /\ actpid = [t \in Launchers |-> 0]
  /\ ctori = [t \in Launchers |-> 0]
  /\ ctorp = [t \in Launchers |-> 0]
  /\ ctorlog = [t \in Launchers |-> <<>>]
  /\ tasklog = [t \in Launchers |-> <<>>]

\* the way into the error path: 'err = e; goto label'
\* 'raw' is what the failing step reported: the return value of an
\* up_addrenv_*() call, the errno task_init()/task_activate() left, 0 for
\* an allocator that returned NULL
Fail(t, step, raw, e, label) ==
  /\ err' = [err EXCEPT ![t] = e]
  /\ failstep' = [failstep EXCEPT ![t] = step]
  /\ diag' = [diag EXCEPT ![t] = raw]
  /\ pc' = [pc EXCEPT ![t] = label]

Call(t, name) == log' = [log EXCEPT ![t] = Append(@, name)]

(***************************************************************************)
(* exec_module, lines 147-155: sanity checking, compiled in by CONFIG_DEBUG *)
(***************************************************************************)
Sanity(t) ==
  /\ pc[t] = "start"
  /\ IF config.debug /\ SanityFails(binp[t])
       THEN Fail(t, "sanity", 0, EINVAL, "errout")
       ELSE /\ pc' = [pc EXCEPT ![t] = "alloc_tcb"]
            /\ UNCHANGED <<err, failstep, diag>>
  /\ UNCHANGED <<config, unwindrestore, binp, stack, oldenv, activeenv, heapinit, pid, errno,
                 retval, log, heapvars, taskvars>>

Goto(t, label) ==
  /\ pc' = [pc EXCEPT ![t] = label]
  /\ UNCHANGED <<err, failstep, diag>>

(***************************************************************************)
(* exec_module, lines 159-166: allocate a TCB for the new task             *)
(***************************************************************************)
AllocTcb(t) ==
  /\ pc[t] = "alloc_tcb"
  /\ Call(t, "kmm_zalloc")
  /\ \E ok \in BOOLEAN :
       IF ok
         THEN /\ tcb' = [tcb EXCEPT ![t] = ZeroTcb]
              /\ tcbcount' = tcbcount + 1
              /\ Goto(t, IF binp[t].null THEN "deref"
                         ELSE IF config.addrenv THEN "select" ELSE "alloc_stack")
         ELSE /\ Fail(t, "kmm_zalloc", 0, ENOMEM, "errout")
              /\ UNCHANGED <<tcb, tcbcount>>
  /\ UNCHANGED <<config, unwindrestore, binp, stack, oldenv, activeenv, heapinit, pid, errno,
                 retval, stackcount, taskvars>>

(***************************************************************************)
(* Without CONFIG_DEBUG a NULL binp gets past line 155 and lines 171/191   *)
(* read through it: the read faults, or it yields whatever lies at         *)
(* address 0.                                                              *)
(***************************************************************************)
NullDeref(t) ==
  /\ pc[t] = "deref"
  /\ \/ /\ Goto(t, "fault")
        /\ UNCHANGED binp
     \/ /\ \E b \in Binps : binp' = [binp EXCEPT ![t] = [b EXCEPT !.null = TRUE]]
        /\ Goto(t, IF config.addrenv THEN "select" ELSE "alloc_stack")
  /\ UNCHANGED <<config, unwindrestore, stack, oldenv, activeenv, heapinit, pid, errno,
                 retval, log, heapvars, taskvars>>

\* up_addrenv_select() followed at once by the stack allocation
SelectSkipsHeapInit(t) ==
  /\ pc[t] = "select"
  /\ Call(t, "up_addrenv_select")
  /\ \E r \in AddrenvRets :
       IF r < 0
         THEN /\ Fail(t, "up_addrenv_select", r, -r, "errout_with_tcb")
              /\ UNCHANGED <<oldenv, activeenv>>
         ELSE /\ oldenv' = [oldenv EXCEPT ![Frame(t)] = activeenv[t]]
              /\ activeenv' = [activeenv EXCEPT ![t] = "image"]
              /\ Goto(t, "alloc_stack")
  /\ UNCHANGED <<config, unwindrestore, binp, stack, heapinit, pid, errno, retval, heapvars, taskvars>>

\* a failure of up_addrenv_select() sent to errout_with_addrenv
SelectFailureRestores(t) ==
  /\ pc[t] = "select"
  /\ Call(t, "up_addrenv_select")
  /\ \E r \in AddrenvRets :
       IF r < 0
         THEN /\ Fail(t, "up_addrenv_select", r, -r, "errout_with_addrenv")
              /\ UNCHANGED <<oldenv, activeenv>>
         ELSE /\ oldenv' = [oldenv EXCEPT ![Frame(t)] = activeenv[t]]
              /\ activeenv' = [activeenv EXCEPT ![t] = "image"]
              /\ Goto(t, "umm_init")
  /\ UNCHANGED <<config, unwindrestore, binp, stack, heapinit, pid, errno, retval, heapvars, taskvars>>

(***************************************************************************)
(* exec_module, lines 168-177: up_addrenv_select(&binp->addrenv, &oldenv)  *)
(***************************************************************************)
Select(t) ==
  /\ pc[t] = "select"
  /\ Call(t, "up_addrenv_select")
  /\ \E r \in AddrenvRets :
       IF r < 0
         THEN /\ Fail(t, "up_addrenv_select", r, -r, "errout_with_tcb")
              /\ UNCHANGED <<oldenv, activeenv>>
         ELSE /\ oldenv' = [oldenv EXCEPT ![Frame(t)] = activeenv[t]]
              /\ activeenv' = [activeenv EXCEPT ![t] = "image"]
              /\ Goto(t, "umm_init")
  /\ UNCHANGED <<config, unwindrestore, binp, stack, heapinit, pid, errno, retval, heapvars, taskvars>>

(***************************************************************************)
(* exec_module, lines 179-182: umm_initialize() of the user heap           *)
(***************************************************************************)
UmmInit(t) ==
  /\ pc[t] = "umm_init"
  /\ Call(t, "umm_initialize")
  /\ heapinit' = [heapinit EXCEPT ![t] = TRUE]
  /\ Goto(t, "alloc_stack")
  /\ UNCHANGED <<config, unwindrestore, binp, stack, oldenv, activeenv, pid, errno, retval,
                 heapvars, taskvars>>

\* a stack allocation that is tried again when kumm_malloc() returns NULL
AllocStackRetries(t) ==
  /\ pc[t] = "alloc_stack"
  /\ Call(t, "kumm_malloc")
  /\ \E ok \in BOOLEAN :
       IF ok
         THEN /\ stack' = [stack EXCEPT ![t] = TRUE]
              /\ stackcount' = stackcount + 1
              /\ Goto(t, "task_init")
         ELSE /\ Goto(t, "alloc_stack")
              /\ UNCHANGED <<stack, stackcount>>
  /\ UNCHANGED <<config, unwindrestore, binp, oldenv, activeenv, heapinit, pid,
                 errno, retval, tcb, tcbcount, taskvars>>

(***************************************************************************)
(* exec_module, lines 191-196: kumm_malloc(binp->stacksize)                *)
(***************************************************************************)
AllocStack(t) ==
  /\ pc[t] = "alloc_stack"
  /\ Call(t, "kumm_malloc")
  /\ \E ok \in BOOLEAN :
       IF ok
         THEN /\ stack' = [stack EXCEPT ![t] = TRUE]
              /\ stackcount' = stackcount + 1
              /\ Goto(t, "task_init")
         ELSE /\ Fail(t, "kumm_malloc", 0, ENOMEM, "errout_with_addrenv")
              /\ UNCHANGED <<stack, stackcount>>
  /\ UNCHANGED <<config, unwindrestore, binp, oldenv, activeenv, heapinit, pid, errno, retval,
                 tcb, tcbcount, taskvars>>

\* task_init() assigns a pid no other existing task has: the pids of the
\* tasks the other calls have initialised and not released, or activated
UsedPids(t) ==
  {tcb[u].pid : u \in {v \in Launchers \ {t} : tcb[v].mem = "alloc" /\ tcb[v].inited}}
    \cup {actpid[u] : u \in {v \in Launchers \ {t} : task[v] \in {"ready", "ctors", "entry"}}}

\* task_init() followed by the pid capture, the start hook left out
TaskInitSkipsHook(t) ==
  /\ pc[t] = "task_init"
  /\ Call(t, "task_init")
  /\ \/ \E p \in Pids \ UsedPids(t) :
          /\ tcb' = [tcb EXCEPT ![t] = [@ EXCEPT !.inited = TRUE, !.pid = p,
                                                 !.stack_alloc_ptr = stack[t],
                                                 !.entry = binp[t].entrypt]]
          /\ Goto(t, IF config.addrenv THEN "clone"
                     ELSE "getpid")
          /\ UNCHANGED errno
     \/ \E e \in DiagCodes, sp \in BOOLEAN :
          /\ tcb' = [tcb EXCEPT ![t] = [@ EXCEPT !.stack_alloc_ptr = sp]]
          /\ errno' = [errno EXCEPT ![t] = e]
          /\ Fail(t, "task_init", e, errno'[t], "errout_with_stack")
  /\ UNCHANGED <<config, unwindrestore, binp, stack, oldenv, activeenv, heapinit, pid, retval,
                 tcbcount, stackcount, taskvars>>

(***************************************************************************)
(* exec_module, lines 200-207: task_init().  On success the TCB holds the  *)
(* stack, the entry point and the pid the scheduler assigned.  On failure  *)
(* task_init() sets errno, and may or may not have stored the stack        *)
(* pointer before it gave up.                                              *)
(***************************************************************************)
TaskInit(t) ==
  /\ pc[t] = "task_init"
  /\ Call(t, "task_init")
  /\ \/ \E p \in Pids \ UsedPids(t) :
          /\ tcb' = [tcb EXCEPT ![t] = [@ EXCEPT !.inited = TRUE, !.pid = p,
                                                 !.stack_alloc_ptr = stack[t],
                                                 !.entry = binp[t].entrypt]]
          /\ Goto(t, IF config.addrenv THEN "clone"
                     ELSE IF config.ctors THEN "starthook" ELSE "getpid")
          /\ UNCHANGED errno
     \/ \E e \in DiagCodes, sp \in BOOLEAN :
          /\ tcb' = [tcb EXCEPT ![t] = [@ EXCEPT !.stack_alloc_ptr = sp]]
          /\ errno' = [errno EXCEPT ![t] = e]
          /\ Fail(t, "task_init", e, errno'[t], "errout_with_stack")
  /\ UNCHANGED <<config, unwindrestore, binp, stack, oldenv, activeenv, heapinit, pid, retval,
                 tcbcount, stackcount, taskvars>>

\* a failure of up_addrenv_clone() that is not acted on
CloneUnchecked(t) ==
  /\ pc[t] = "clone"
  /\ Call(t, "up_addrenv_clone")
  /\ \E r \in AddrenvRets :
       /\ tcb' = [tcb EXCEPT ![t] = [@ EXCEPT !.addrenv = (r >= 0),
                                              !.tg_addrenv = TRUE]]
       /\ Goto(t, IF config.ctors THEN "starthook" ELSE "getpid")
  /\ UNCHANGED <<config, unwindrestore, binp, stack, oldenv, activeenv, heapinit,
                 pid, errno, retval, tcbcount, stackcount, taskvars>>

(***************************************************************************)
(* exec_module, lines 224-238: up_addrenv_clone() into the task group and  *)
(* tg_flags |= GROUP_FLAG_ADDRENV                                          *)
(***************************************************************************)
Clone(t) ==
  /\ pc[t] = "clone"
  /\ Call(t, "up_addrenv_clone")
  /\ \E r \in AddrenvRets :
       IF r < 0
         THEN /\ Fail(t, "up_addrenv_clone", r, -r, "errout_with_stack")
              /\ UNCHANGED tcb
         ELSE /\ tcb' = [tcb EXCEPT ![t] = [@ EXCEPT !.addrenv = TRUE,
                                                     !.tg_addrenv = TRUE]]
              /\ Goto(t, IF config.ctors THEN "starthook" ELSE "getpid")
  /\ UNCHANGED <<config, unwindrestore, binp, stack, oldenv, activeenv, heapinit, pid, errno,
                 retval, tcbcount, stackcount, taskvars>>

(***************************************************************************)
(* exec_module, lines 240-247: task_starthook(tcb, exec_ctors, binp)       *)
(***************************************************************************)
StartHook(t) ==
  /\ pc[t] = "starthook"
  /\ Call(t, "task_starthook")
  /\ tcb' = [tcb EXCEPT ![t] = [@ EXCEPT !.starthook = TRUE]]
  /\ Goto(t, "getpid")
  /\ UNCHANGED <<config, unwindrestore, binp, stack, oldenv, activeenv, heapinit, pid, errno,
                 retval, tcbcount, stackcount, taskvars>>

(***************************************************************************)
(* exec_module, lines 249-251: pid = tcb->cmn.pid                          *)
(***************************************************************************)
GetPid(t) ==
  /\ pc[t] = "getpid"
  /\ pid' = [pid EXCEPT ![Frame(t)] = tcb[t].pid]
  /\ Goto(t, "activate")
  /\ UNCHANGED <<config, unwindrestore, binp, stack, oldenv, activeenv, heapinit, errno,
                 retval, log, heapvars, taskvars>>

(***************************************************************************)
(* exec_module, lines 255-261: task_activate().  On success the task is    *)
(* ready to run from now on; on failure task_activate() sets errno.        *)
(***************************************************************************)
Activate(t) ==
  /\ pc[t] = "activate"
  /\ Call(t, "task_activate")
  /\ actpid' = [actpid EXCEPT ![t] = tcb[t].pid]
  /\ \/ /\ task' = [task EXCEPT ![t] = "ready"]
        /\ Goto(t, IF config.addrenv THEN "restore" ELSE "return")
        /\ UNCHANGED errno
     \/ \E e \in DiagCodes :
          /\ errno' = [errno EXCEPT ![t] = e]
          /\ Fail(t, "task_activate", e, errno'[t], "errout_with_stack")
          /\ UNCHANGED task
  /\ UNCHANGED <<config, unwindrestore, binp, stack, oldenv, activeenv, heapinit, pid, retval,
                 heapvars, ctori, ctorp, ctorlog, tasklog>>

(***************************************************************************)
(* exec_module, lines 263-273: up_addrenv_restore(&oldenv) on the way out  *)
(***************************************************************************)
Restore(t) ==
  /\ pc[t] = "restore"
  /\ Call(t, "up_addrenv_restore")
  /\ \E r \in AddrenvRets :
       IF r < 0
         THEN /\ Fail(t, "up_addrenv_restore", r, -r, "errout_with_stack")
              /\ UNCHANGED activeenv
         ELSE /\ activeenv' = [activeenv EXCEPT ![t] = oldenv[Frame(t)]]
              /\ Goto(t, "return")
  /\ UNCHANGED <<config, unwindrestore, binp, stack, oldenv, heapinit, pid, errno, retval,
                 heapvars, taskvars>>

\* line 275 without its return: control falls into errout_with_stack
ReturnFallsThrough(t) ==
  /\ pc[t] = "return"
  /\ Goto(t, "errout_with_stack")
  /\ UNCHANGED <<config, unwindrestore, binp, stack, oldenv, activeenv, heapinit,
                 pid, errno, retval, log, heapvars, taskvars>>

\* the return value read from the TCB again instead of from 'pid'
ReturnRereadsTcb(t) ==
  /\ pc[t] = "return"
  /\ retval' = [retval EXCEPT ![t] = tcb[t].pid]
  /\ Goto(t, "done")
  /\ UNCHANGED <<config, unwindrestore, binp, stack, oldenv, activeenv, heapinit,
                 pid, errno, log, heapvars, taskvars>>

(***************************************************************************)
(* exec_module, line 275: return (int)pid                                  *)
(***************************************************************************)
Return(t) ==
  /\ pc[t] = "return"
  /\ retval' = [retval EXCEPT ![t] = pid[Frame(t)]]
  /\ Goto(t, "done")
  /\ UNCHANGED <<config, unwindrestore, binp, stack, oldenv, activeenv, heapinit, pid, errno,
                 log, heapvars, taskvars>>

(***************************************************************************)
(* The unwind.  Calls that give memory back are logged by name:            *)
(*   sched_releasetcb  the scheduler's release of a TCB                    *)
(*   up_release_stack  the stack free sched_releasetcb() does itself when  *)
(*                     tcb->stack_alloc_ptr is non-NULL                    *)
(*   kumm_free         the launcher's own free of the stack                *)
(*   kmm_free          the launcher's own free of the TCB                  *)
(***************************************************************************)
RECURSIVE Count(_, _)
Count(s, names) ==
  IF s = <<>> THEN 0
  ELSE (IF Head(s) \in names THEN 1 ELSE 0) + Count(Tail(s), names)

StackFrees(calls) == Count(calls, {"up_release_stack", "kumm_free"})
TcbFrees(calls) == Count(calls, {"sched_releasetcb", "kmm_free"})

\* the assignment of line 278 left out
DetachStackMissing(rec) == rec

\* line 278: tcb->cmn.stack_alloc_ptr = NULL
DetachStack(rec) == [rec EXCEPT !.stack_alloc_ptr = FALSE]

\* sched_releasetcb(): frees the stack the TCB points to, then the TCB
ReleaseCalls(rec) ==
  IF rec.stack_alloc_ptr THEN <<"up_release_stack", "sched_releasetcb">>
                         ELSE <<"sched_releasetcb">>

\* errout_with_stack without its kumm_free(stack)
ErroutStackCallsNoFree(rec) == ReleaseCalls(DetachStack(rec))

\* lines 278-280: the calls errout_with_stack makes on the TCB 'rec'
ErroutStackCalls(rec) == ReleaseCalls(DetachStack(rec)) \o <<"kumm_free">>

\* lines 278-279: the TCBs the local 'tcb' of launcher t can point to when
\* errout_with_stack writes to it and releases it.  As long as its TCB is
\* allocated, that TCB.  Once the task has exited, the scheduler has given
\* the memory back and the pointer dangles: the memory is still free, or
\* kmm_zalloc() has handed it to another call as its TCB.
TcbAt(t) ==
  IF tcb[t].mem = "freed"
    THEN {t} \cup {u \in Launchers : tcb[u].mem = "alloc"}
    ELSE {t}

(***************************************************************************)
(* exec_module, lines 277-281: errout_with_stack.  sched_releasetcb() may  *)
(* leave any errno behind.                                                 *)
(***************************************************************************)
ErroutWithStack(t) ==
  /\ pc[t] = "errout_with_stack"
  /\ LET calls == ErroutStackCalls(tcb[t])
     IN  /\ log' = [log EXCEPT ![t] = @ \o calls]
         /\ \E v \in TcbAt(t) :
              tcb' = [tcb EXCEPT ![t] = [DetachStack(@) EXCEPT !.mem = "freed"],
                                 ![v] = [DetachStack(@) EXCEPT !.mem = "freed"]]
         /\ tcbcount' = tcbcount - TcbFrees(calls)
         /\ stackcount' = stackcount - StackFrees(calls)
  /\ \E e \in DiagCodes \cup {errno[t]} : errno' = [errno EXCEPT ![t] = e]
  /\ Goto(t, "errout")
  /\ UNCHANGED <<config, unwindrestore, binp, stack, oldenv, activeenv, heapinit, pid, retval,
                 taskvars>>

\* errout_with_addrenv without its up_addrenv_restore()
ErroutWithAddrenvNoRestore(t) ==
  /\ pc[t] = "errout_with_addrenv"
  /\ Goto(t, "errout_with_tcb")
  /\ UNCHANGED <<config, binp, stack, oldenv, activeenv, heapinit, pid, errno,
                 retval, log, unwindrestore, heapvars, taskvars>>

(***************************************************************************)
(* exec_module, lines 283-286: errout_with_addrenv; the result of          *)
(* up_addrenv_restore() is discarded                                       *)
(***************************************************************************)
ErroutWithAddrenv(t) ==
  /\ pc[t] = "errout_with_addrenv"
  /\ IF config.addrenv
       THEN /\ Call(t, "up_addrenv_restore")
            /\ \E r \in AddrenvRets :
                 /\ activeenv' = [activeenv EXCEPT ![t] = IF r < 0 THEN @ ELSE oldenv[Frame(t)]]
                 /\ unwindrestore' = [unwindrestore EXCEPT ![t] = IF r < 0 THEN "failed" ELSE "ok"]
       ELSE UNCHANGED <<log, activeenv, unwindrestore>>
  /\ Goto(t, "errout_with_tcb")
  /\ UNCHANGED <<config, binp, stack, oldenv, heapinit, pid, errno, retval,
                 heapvars, taskvars>>

(***************************************************************************)
(* exec_module, lines 287-288: errout_with_tcb: kmm_free(tcb)              *)
(***************************************************************************)
ErroutWithTcb(t) ==
  /\ pc[t] = "errout_with_tcb"
  /\ Call(t, "kmm_free")
  /\ tcb' = [tcb EXCEPT ![t] = [@ EXCEPT !.mem = "freed"]]
  /\ tcbcount' = tcbcount - 1
  /\ Goto(t, "errout")
  /\ UNCHANGED <<config, unwindrestore, binp, stack, oldenv, activeenv, heapinit, pid, errno,
                 retval, stackcount, taskvars>>

\* errout without its set_errno(err)
ErroutNoSetErrno(t) ==
  /\ pc[t] = "errout"
  /\ retval' = [retval EXCEPT ![t] = ERROR]
  /\ Goto(t, "done")
  /\ UNCHANGED <<config, unwindrestore, binp, stack, oldenv, activeenv, heapinit,
                 pid, errno, log, heapvars, taskvars>>

(***************************************************************************)
(* exec_module, lines 289-292: errout: set_errno(err); return ERROR        *)
(***************************************************************************)
Errout(t) ==
  /\ pc[t] = "errout"
  /\ Call(t, "set_errno")
  /\ errno' = [errno EXCEPT ![t] = err[t]]
  /\ retval' = [retval EXCEPT ![t] = ERROR]
  /\ Goto(t, "done")
  /\ UNCHANGED <<config, unwindrestore, binp, stack, oldenv, activeenv, heapinit, pid,
                 heapvars, taskvars>>

(***************************************************************************)
(* The new task.  Once task_activate() has succeeded the scheduler may     *)
(* dispatch it at any time, before or after exec_module returns.  It runs  *)
(* its start hook, then its entry point, and when it exits the scheduler   *)
(* releases its TCB.  A TCB the launcher has given back meanwhile (mem =   *)
(* "freed") is read as whatever the freed memory holds.                    *)
(***************************************************************************)
TaskStart(t) ==
  /\ task[t] = "ready"
  /\ \E hook \in (IF tcb[t].mem = "freed" THEN BOOLEAN ELSE {tcb[t].starthook}) :
       IF hook
         THEN /\ task' = [task EXCEPT ![t] = "ctors"]
              /\ ctori' = [ctori EXCEPT ![t] = 0]
              /\ ctorp' = [ctorp EXCEPT ![t] = 0]
              /\ tasklog' = [tasklog EXCEPT ![t] = Append(@, "exec_ctors")]
         ELSE /\ task' = [task EXCEPT ![t] = "entry"]
              /\ tasklog' = [tasklog EXCEPT ![t] = Append(@, "entry")]
              /\ UNCHANGED <<ctori, ctorp>>
  /\ UNCHANGED <<config, binp, launchvars, heapvars, actpid, ctorlog>>

\* exec_ctors without its 'ctor++'
ExecCtorsNoAdvance(t) ==
  /\ task[t] = "ctors"
  /\ IF ctori[t] < binp[t].nctors
       THEN /\ ctorlog' = [ctorlog EXCEPT ![t] = Append(@, ctorp[t])]
            /\ ctori' = [ctori EXCEPT ![t] = @ + 1]
            /\ UNCHANGED <<task, tasklog, ctorp>>
       ELSE /\ task' = [task EXCEPT ![t] = "entry"]
            /\ tasklog' = [tasklog EXCEPT ![t] = Append(@, "entry")]
            /\ UNCHANGED <<ctori, ctorp, ctorlog>>
  /\ UNCHANGED <<config, binp, launchvars, heapvars, actpid>>

(***************************************************************************)
(* exec_ctors, lines 101-116: one turn of the loop, or its end, after      *)
(* which the task's main function is called                                *)
(***************************************************************************)
ExecCtors(t) ==
  /\ task[t] = "ctors"
  /\ IF ctori[t] < binp[t].nctors
       THEN /\ ctorlog' = [ctorlog EXCEPT ![t] = Append(@, ctorp[t])]
            /\ ctorp' = [ctorp EXCEPT ![t] = @ + 1]
            /\ ctori' = [ctori EXCEPT ![t] = @ + 1]
            /\ UNCHANGED <<task, tasklog>>
       ELSE /\ task' = [task EXCEPT ![t] = "entry"]
            /\ tasklog' = [tasklog EXCEPT ![t] = Append(@, "entry")]
            /\ UNCHANGED <<ctori, ctorp, ctorlog>>
  /\ UNCHANGED <<config, binp, launchvars, heapvars, actpid>>

(***************************************************************************)
(* The task exits: the scheduler releases its TCB, and with it the stack   *)
(* the TCB points to.  The memory of the TCB is reused from then on: a     *)
(* later read of tcb->cmn.pid finds any value.                             *)
(***************************************************************************)
TaskExit(t) ==
  /\ task[t] = "entry"
  /\ task' = [task EXCEPT ![t] = "exited"]
  /\ \E sp \in (IF tcb[t].mem = "freed" THEN BOOLEAN ELSE {tcb[t].stack_alloc_ptr}),
        p \in 0..MaxPid :
       LET calls == ReleaseCalls([tcb[t] EXCEPT !.stack_alloc_ptr = sp])
       IN  /\ tasklog' = [tasklog EXCEPT ![t] = @ \o calls]
           /\ tcb' = [tcb EXCEPT ![t] = [@ EXCEPT !.mem = "freed", !.pid = p]]
           /\ tcbcount' = tcbcount - TcbFrees(calls)
           /\ stackcount' = stackcount - StackFrees(calls)
  /\ UNCHANGED <<config, binp, launchvars, actpid, ctori, ctorp, ctorlog>>

Next ==
  \E t \in Launchers :
    \/ Sanity(t)
    \/ AllocTcb(t)
    \/ NullDeref(t)
    \/ Select(t)
    \/ UmmInit(t)
    \/ AllocStack(t)
    \/ TaskInit(t)
    \/ Clone(t)
    \/ StartHook(t)
    \/ GetPid(t)
    \/ Activate(t)
    \/ Restore(t)
    \/ Return(t)
    \/ ErroutWithStack(t)
    \/ ErroutWithAddrenv(t)
    \/ ErroutWithTcb(t)
    \/ Errout(t)
    \/ TaskStart(t)
    \/ ExecCtors(t)
    \/ TaskExit(t)

Spec == Init /\ [][Next]_vars

(***************************************************************************)
(* Two calls in progress at once, on two threads, each for a valid image   *)
(* of its own and each with an address environment of its own active       *)
(* before the call, in every build that has the argument check.            *)
(***************************************************************************)
Concurrent == {1, 2}

CallerEnv(t) == IF t = 1 THEN "caller" ELSE "caller2"

\* the two images differ: the image of the second call has a constructor,
\* the image of the first has none
ConcBinp(t) ==
  IF t \in Concurrent
    THEN [null |-> FALSE, entrypt |-> TRUE, stacksize |-> 1, nctors |-> t - 1]
    ELSE NullBinp

InitConc ==
  /\ config \in {c \in Configs : c.debug}
  /\ binp = [t \in Launchers |-> ConcBinp(t)]
  /\ pc = [t \in Launchers |-> IF t \in Concurrent THEN "start" ELSE "idle"]
  /\ tcb = [t \in Launchers |-> NoTcb]
  /\ stack = [t \in Launchers |-> FALSE]
  /\ oldenv = [t \in Launchers |-> "none"]
  /\ activeenv = [t \in Launchers |-> CallerEnv(t)]
  /\ heapinit = [t \in Launchers |-> FALSE]
  /\ pid = [t \in Launchers |-> 0]
  /\ err = [t \in Launchers |-> 0]
  /\ errno = [t \in Launchers |-> 0]
  /\ retval = [t \in Launchers |-> "none"]
  /\ failstep = [t \in Launchers |-> "none"]
  /\ diag = [t \in Launchers |-> 0]
  /\ log = [t \in Launchers |-> <<>>]
  /\ unwindrestore = [t \in Launchers |-> "none"]
  /\ tcbcount = 0
  /\ stackcount = 0
  /\ task = [t \in Launchers |-> "none"]
  /\ actpid = [t \in Launchers |-> 0]
  /\ ctori = [t \in Launchers |-> 0]
  /\ ctorp = [t \in Launchers |-> 0]
  /\ ctorlog = [t \in Launchers |-> <<>>]
  /\ tasklog = [t \in Launchers |-> <<>>]

\* the steps of a call for a valid image, and of the task it starts
NextConc ==
  \E t \in Launchers :
    \/ Sanity(t)
    \/ AllocTcb(t)
    \/ Select(t)
    \/ UmmInit(t)
    \/ AllocStack(t)
    \/ TaskInit(t)
    \/ Clone(t)
    \/ StartHook(t)
    \/ GetPid(t)
    \/ Activate(t)
    \/ Restore(t)
    \/ Return(t)
    \/ ErroutWithStack(t)
    \/ ErroutWithAddrenv(t)
    \/ ErroutWithTcb(t)
    \/ Errout(t)
    \/ TaskStart(t)
    \/ ExecCtors(t)
    \/ TaskExit(t)

SpecConc == InitConc /\ [][NextConc]_vars

(***************************************************************************)
(* Properties                                                              *)
(***************************************************************************)
Returned(t) == pc[t] = "done"
Failed(t) == Returned(t) /\ retval[t] = ERROR
\* the launch has failed and its unwind is over: it is at errout or has returned
Unwound(t) == failstep[t] # "none" /\ pc[t] \in {"errout", "done"}
SelectSucceeded(t) == oldenv[t] # "none"

\* C1: with address environments, whenever up_addrenv_select() succeeded,
\* the environment that was active before the call is active again when
\* exec_module returns: on success and on a failure of the stack
\* allocation, task_init(), up_addrenv_clone() or task_activate().  (A
\* restore call that itself fails is left out of the statement.)
C1_AddrenvRestoredOnEveryExit ==
  \A t \in Launchers :
    (/\ Returned(t)
     /\ SelectSucceeded(t)
     /\ failstep[t] \in {"none", "kumm_malloc", "task_init", "up_addrenv_clone",
                         "task_activate"}
     /\ unwindrestore[t] # "failed")
    => activeenv[t] = oldenv[t]

\* C2: when up_addrenv_restore() fails after task_activate() succeeded,
\* exec_module reports the failure but neither releases the TCB nor frees
\* the stack of the task it has activated.
C2_RestoreFailureDoesNotUnwind ==
  \A t \in Launchers :
    (Returned(t) /\ failstep[t] = "up_addrenv_restore")
    => /\ retval[t] = ERROR
       /\ TcbFrees(log[t]) = 0
       /\ StackFrees(log[t]) = 0

\* C3: after a failure of the TCB allocation, up_addrenv_select(), the
\* stack allocation, task_init(), up_addrenv_clone() or task_activate(),
\* the number of allocated TCBs and the number of allocated stacks are
\* what they were before the call.
C3_NoLeakOnFailure ==
  \A t \in Launchers :
    (/\ Returned(t)
     /\ failstep[t] \in {"kmm_zalloc", "up_addrenv_select", "kumm_malloc",
                         "task_init", "up_addrenv_clone", "task_activate"})
    => /\ retval[t] = ERROR
       /\ tcbcount = 0
       /\ stackcount = 0
       /\ tcb[t].mem # "alloc"

\* a failed launch that had acquired both a TCB and a stack and gave them back
C3_Witness ==
  \E t \in Launchers :
    /\ Returned(t)
    /\ failstep[t] = "task_activate"
    /\ Count(log[t], {"kmm_zalloc", "kumm_malloc"}) = 2
    /\ stack[t]
    /\ tcbcount = 0
    /\ stackcount = 0

\* C4: on every failed launch in which the stack was allocated, the stack
\* has been freed exactly once when the unwind is over, whoever frees it
\* (the launcher itself or a release of the TCB).
C4_StackFreedExactlyOnce ==
  \A t \in Launchers :
    (Unwound(t) /\ stack[t]) => StackFrees(log[t] \o tasklog[t]) = 1

\* C5 as claimed: after a failure of up_addrenv_clone() or task_activate()
\* the stack has been freed by the release of the TCB and the launcher has
\* not called the allocator's free on it.
C5_StackFreedByRelease ==
  \A t \in Launchers :
    (Returned(t) /\ failstep[t] \in {"up_addrenv_clone", "task_activate"})
    => /\ Count(log[t], {"up_release_stack"}) = 1
       /\ Count(log[t], {"kumm_free"}) = 0

\* C5 as amended: after a failure of up_addrenv_clone() or task_activate()
\* the launcher has cleared the TCB's stack pointer, released the TCB
\* without that release freeing the stack, and then freed the stack itself
\* with one kumm_free().
C5_StackFreedByLauncher ==
  \A t \in Launchers :
    (Returned(t) /\ failstep[t] \in {"up_addrenv_clone", "task_activate"})
    => /\ ~tcb[t].stack_alloc_ptr
       /\ Count(log[t], {"up_release_stack"}) = 0
       /\ Count(log[t], {"sched_releasetcb"}) = 1
       /\ Count(log[t], {"kumm_free"}) = 1
       /\ \E i \in 1..(Len(log[t]) - 1) :
            log[t][i] = "sched_releasetcb" /\ log[t][i + 1] = "kumm_free"

\* a launch that failed at up_addrenv_clone(), after task_init() had stored
\* the stack in the TCB, and has been unwound
C5_Witness ==
  \E t \in Launchers :
    /\ Returned(t)
    /\ failstep[t] = "up_addrenv_clone"
    /\ tcb[t].inited
    /\ Count(log[t], {"kumm_free"}) = 1

\* C6: task_activate() is called only on a TCB whose stack was allocated,
\* on which task_init() succeeded with that stack and the entry point of
\* the image, and, with address environments, whose group holds the clone
\* of the image's environment and is flagged GROUP_FLAG_ADDRENV.
C6_ActivateOnlyWhenInitialized ==
  \A t \in Launchers :
    (pc[t] = "activate" \/ task[t] = "ready")
    => /\ stack[t]
       /\ Count(log[t], {"kumm_malloc"}) = 1
       /\ tcb[t].mem = "alloc" => /\ tcb[t].inited
                                  /\ tcb[t].stack_alloc_ptr
                                  /\ tcb[t].entry = binp[t].entrypt
                                  /\ tcb[t].pid \in Pids
                                  /\ config.addrenv => tcb[t].addrenv /\ tcb[t].tg_addrenv
       /\ pc[t] = "activate" => tcb[t].mem = "alloc"

\* a task activated in a build with address environments
C6_Witness ==
  \E t \in Launchers :
    /\ task[t] = "ready"
    /\ config.addrenv
    /\ tcb[t].mem = "alloc"
    /\ tcb[t].tg_addrenv

\* C7 as claimed: a call with a NULL binp, a NULL entry point or a stack
\* size that is not positive returns ERROR with EINVAL and calls no
\* collaborator: no TCB, no stack, no address environment selected.
C7_InvalidArgumentRejected ==
  \A t \in Launchers :
    (/\ pc[t] \notin {"idle", "start"}
     /\ (binp[t].null \/ ~binp[t].entrypt \/ binp[t].stacksize <= 0))
    => /\ pc[t] \in {"errout", "done"}
       /\ err[t] = EINVAL
       /\ Count(log[t], {"set_errno"}) = Len(log[t])
       /\ tcb[t].mem = "none"
       /\ ~stack[t]
       /\ ~SelectSucceeded(t)
       /\ activeenv[t] = "caller"
       /\ Returned(t) => retval[t] = ERROR /\ errno[t] = EINVAL

\* C7 as amended: the same, in a build with CONFIG_DEBUG.
C7_InvalidArgumentRejectedInDebugBuild ==
  \A t \in Launchers :
    (/\ config.debug
     /\ pc[t] \notin {"idle", "start"}
     /\ (binp[t].null \/ ~binp[t].entrypt \/ binp[t].stacksize <= 0))
    => /\ pc[t] \in {"errout", "done"}
       /\ err[t] = EINVAL
       /\ Count(log[t], {"set_errno"}) = Len(log[t])
       /\ tcb[t].mem = "none"
       /\ ~stack[t]
       /\ ~SelectSucceeded(t)
       /\ activeenv[t] = "caller"
       /\ Returned(t) => retval[t] = ERROR /\ errno[t] = EINVAL

\* a call with a stack size of 0 that a CONFIG_DEBUG build has rejected
C7_Witness ==
  \E t \in Launchers :
    /\ config.debug
    /\ ~binp[t].null
    /\ binp[t].entrypt
    /\ binp[t].stacksize = 0
    /\ Returned(t)
    /\ errno[t] = EINVAL

\* C8: the value a successful exec_module returns is the pid the TCB held
\* when it was handed to task_activate(), whatever the new task has done to
\* its TCB before exec_module returns.
C8_ReturnsPidOfActivatedTask ==
  \A t \in Launchers :
    (Returned(t) /\ failstep[t] = "none")
    => /\ retval[t] = actpid[t]
       /\ retval[t] \in Pids

\* a successful launch whose task has exited, and whose TCB no longer
\* holds the pid
C8_Witness ==
  \E t \in Launchers :
    /\ Returned(t)
    /\ failstep[t] = "none"
    /\ task[t] = "exited"
    /\ tcb[t].pid # actpid[t]
    /\ retval[t] = actpid[t]

\* C9: a failed launch returns ERROR with errno set to the diagnostic of
\* the step that failed (EINVAL from the sanity check, ENOMEM for the TCB
\* and the stack, the negated return value of up_addrenv_select(),
\* up_addrenv_clone() and up_addrenv_restore(), the errno task_init() and
\* task_activate() left), whatever the calls of the unwind did to errno; a
\* successful launch returns a pid, which is not ERROR.
C9_FailureReportsDiagnostic ==
  \A t \in Launchers :
    Returned(t) =>
      CASE failstep[t] = "none" ->
             retval[t] # ERROR /\ retval[t] > 0 /\ retval[t] = actpid[t]
        [] failstep[t] = "sanity" ->
             retval[t] = ERROR /\ errno[t] = EINVAL
        [] failstep[t] \in {"kmm_zalloc", "kumm_malloc"} ->
             retval[t] = ERROR /\ errno[t] = ENOMEM
        [] failstep[t] \in {"up_addrenv_select", "up_addrenv_clone",
                            "up_addrenv_restore"} ->
             retval[t] = ERROR /\ diag[t] < 0 /\ errno[t] = 0 - diag[t]
        [] failstep[t] \in {"task_init", "task_activate"} ->
             retval[t] = ERROR /\ diag[t] \in DiagCodes /\ errno[t] = diag[t]

\* a launch that failed in task_activate() with EIO and went through the
\* release of the TCB before it reported EIO
C9_Witness ==
  \E t \in Launchers :
    /\ Returned(t)
    /\ failstep[t] = "task_activate"
    /\ diag[t] = 5
    /\ Count(log[t], {"sched_releasetcb"}) = 1
    /\ errno[t] = 5

CtorList(t) == [i \in 1..binp[t].nctors |-> i - 1]

\* C10: with constructors configured, the start hook calls the entries of
\* the image's constructor list in list order, each at most once, and when
\* the entry point of a task whose launch has not failed begins, every
\* entry has been called.
C10_CtorsInOrderBeforeEntry ==
  \A t \in Launchers :
    /\ Len(ctorlog[t]) <= binp[t].nctors
    /\ ctorlog[t] = SubSeq(CtorList(t), 1, Len(ctorlog[t]))
    /\ task[t] \in {"none", "ready"} => ctorlog[t] = <<>>
    /\ (config.ctors /\ failstep[t] = "none" /\ task[t] \in {"entry", "exited"})
       => ctorlog[t] = CtorList(t)

\* a successful launch of an image with two constructors whose task has
\* reached its entry point
C10_Witness ==
  \E t \in Launchers :
    /\ config.ctors
    /\ Returned(t)
    /\ failstep[t] = "none"
    /\ binp[t].nctors = 2
    /\ task[t] = "entry"
    /\ ctorlog[t] = <<0, 1>>

\* every occurrence of call a in the log s precedes every occurrence of b
Before(s, a, b) ==
  \A i, j \in DOMAIN s : (s[i] = a /\ s[j] = b) => i < j

Called(t, name) == Count(log[t], {name}) > 0

\* C11: the constructor hook is registered before task_activate() is
\* called, it runs at most once, and only on a task that task_activate()
\* made ready: in a launch where task_activate() failed or was never
\* reached, the hook does not run and no constructor is called.
C11_HookOnlyAfterActivation ==
  \A t \in Launchers :
    /\ Count(tasklog[t], {"exec_ctors"}) <= 1
    /\ (config.ctors /\ Called(t, "task_activate"))
       => /\ Count(log[t], {"task_starthook"}) = 1
          /\ Before(log[t], "task_starthook", "task_activate")
    /\ ctorlog[t] # <<>> => Count(tasklog[t], {"exec_ctors"}) = 1
    /\ (\/ ~Called(t, "task_activate")
        \/ failstep[t] \in {"sanity", "kmm_zalloc", "up_addrenv_select",
                            "kumm_malloc", "task_init", "up_addrenv_clone",
                            "task_activate"})
       => /\ task[t] = "none"
          /\ tasklog[t] = <<>>
          /\ ctorlog[t] = <<>>

\* a launch of an image with constructors whose hook was registered and
\* whose task_activate() failed: it has returned and no constructor ran
C11_Witness ==
  \E t \in Launchers :
    /\ config.ctors
    /\ binp[t].nctors > 0
    /\ Called(t, "task_starthook")
    /\ failstep[t] = "task_activate"
    /\ Returned(t)
    /\ ctorlog[t] = <<>>

StackFreeCalls == {"up_release_stack", "kumm_free"}
TcbFreeCalls == {"sched_releasetcb", "kmm_free"}

\* every call of the set as in the log s precedes every call of the set bs
AllBefore(s, as, bs) ==
  \A i, j \in DOMAIN s : (s[i] \in as /\ s[j] \in bs) => i < j

\* the call was made with a loaded image: entry point and stack size set
ValidArg(t) == ~binp[t].null /\ binp[t].entrypt /\ binp[t].stacksize > 0

\* C12: when a failed launch of a valid image has been unwound, what it
\* had acquired is undone in the reverse order of acquisition (TCB,
\* address environment, stack): the stack is freed before the address
\* environment is restored, and the environment is restored before the TCB
\* is released.
C12_UnwindInReverseOrder ==
  \A t \in Launchers :
    (/\ Unwound(t)
     /\ ValidArg(t)
     /\ failstep[t] \in {"up_addrenv_select", "kumm_malloc", "task_init",
                         "up_addrenv_clone", "task_activate"})
    => /\ stack[t] => StackFrees(log[t]) = 1
       /\ SelectSucceeded(t) => Count(log[t], {"up_addrenv_restore"}) = 1
       /\ TcbFrees(log[t]) = 1
       /\ AllBefore(log[t], StackFreeCalls, {"up_addrenv_restore"})
       /\ AllBefore(log[t], {"up_addrenv_restore"}, TcbFreeCalls)
       /\ AllBefore(log[t], StackFreeCalls, TcbFreeCalls)

\* C13: a launch in which no step failed releases nothing: its log holds
\* no free of the TCB or of the stack, and when it returns the pid, the TCB
\* and the stack are still allocated (until the task itself exits) and the
\* TCB still points to the stack.
C13_SuccessReleasesNothing ==
  \A t \in Launchers :
    failstep[t] = "none"
    => /\ TcbFrees(log[t]) = 0
       /\ StackFrees(log[t]) = 0
       /\ Returned(t)
          => /\ retval[t] = pid[t]
             /\ retval[t] # ERROR
             /\ stack[t]
             /\ task[t] # "none"
             /\ task[t] # "exited"
                => /\ tcb[t].mem = "alloc"
                   /\ tcb[t].stack_alloc_ptr
                   /\ tcbcount = 1
                   /\ stackcount = 1

\* a launch that has returned the pid while its task is running
C13_Witness ==
  \E t \in Launchers :
    /\ Returned(t)
    /\ failstep[t] = "none"
    /\ retval[t] = actpid[t]
    /\ task[t] = "entry"
    /\ tcb[t].mem = "alloc"
    /\ tcbcount = 1
    /\ stackcount = 1

\* the forward steps of exec_module in this build, by the call each makes
Steps ==
  <<"kmm_zalloc">>
  \o (IF config.addrenv THEN <<"up_addrenv_select", "umm_initialize">> ELSE <<>>)
  \o <<"kumm_malloc", "task_init">>
  \o (IF config.addrenv THEN <<"up_addrenv_clone">> ELSE <<>>)
  \o (IF config.ctors THEN <<"task_starthook">> ELSE <<>>)
  \o <<"task_activate">>
  \o (IF config.addrenv THEN <<"up_addrenv_restore">> ELSE <<>>)

\* calls the error labels make
UnwindCalls ==
  {"sched_releasetcb", "up_release_stack", "kumm_free", "up_addrenv_restore",
   "kmm_free", "set_errno"}

IsPrefix(a, b) == Len(a) <= Len(b) /\ a = SubSeq(b, 1, Len(a))

\* number of steps that come before task_activate
StepsBeforeActivate ==
  (CHOOSE k \in 1..Len(Steps) : Steps[k] = "task_activate") - 1

\* C14: the steps of a call occur in one forward order, none repeated or
\* skipped: TCB allocation, up_addrenv_select, umm_initialize, stack
\* allocation, task_init, up_addrenv_clone, task_starthook, pid capture,
\* task_activate, up_addrenv_restore (those the build has).  A step is
\* made only when every step before it succeeded: after a failed step the
\* log holds only calls of the unwind.
C14_StepsInForwardOrder ==
  \A t \in Launchers :
    /\ CASE failstep[t] = "none" -> IsPrefix(log[t], Steps)
         [] failstep[t] = "sanity" -> Count(log[t], {"set_errno"}) = Len(log[t])
         [] OTHER ->
              \E k \in 1..Len(Steps) :
                /\ Steps[k] = failstep[t]
                /\ IsPrefix(SubSeq(Steps, 1, k), log[t])
                /\ \A i \in (k + 1)..Len(log[t]) : log[t][i] \in UnwindCalls
    /\ pc[t] = "getpid" => pid[t] = 0 /\ Len(log[t]) = StepsBeforeActivate
    /\ pc[t] = "activate" => pid[t] = tcb[t].pid /\ Len(log[t]) = StepsBeforeActivate
    /\ pid[t] # 0 => Len(log[t]) >= StepsBeforeActivate
    /\ Called(t, "task_activate") => pid[t] = actpid[t] /\ pid[t] \in Pids
    /\ Called(t, "umm_initialize") => SelectSucceeded(t)
    /\ Called(t, "kumm_malloc") => tcb[t].mem # "none"
    /\ Called(t, "task_init") => stack[t]
    /\ Called(t, "up_addrenv_clone") => tcb[t].inited
    /\ Called(t, "task_activate") => tcb[t].inited

\* a call in a build with address environments and constructors that went
\* through every step
C14_Witness ==
  \E t \in Launchers :
    /\ config.addrenv
    /\ config.ctors
    /\ Returned(t)
    /\ failstep[t] = "none"
    /\ log[t] = Steps
    /\ Len(log[t]) = 9

\* C15: when the stack allocation fails, exec_module returns ERROR with
\* ENOMEM after it has called up_addrenv_restore() (if an environment was
\* selected; the caller's environment is active again unless that call
\* itself failed) and then freed the TCB; it has called neither task_init()
\* nor task_activate(), has freed no stack, and as many TCBs are allocated
\* as before the call.
C15_StackAllocFailure ==
  \A t \in Launchers :
    (Returned(t) /\ failstep[t] = "kumm_malloc")
    => /\ retval[t] = ERROR
       /\ errno[t] = ENOMEM
       /\ ~stack[t]
       /\ IF SelectSucceeded(t)
            THEN /\ Count(log[t], {"up_addrenv_restore"}) = 1
                 /\ Before(log[t], "up_addrenv_restore", "kmm_free")
                 /\ unwindrestore[t] # "none"
                 /\ unwindrestore[t] = "ok" => activeenv[t] = oldenv[t]
            ELSE /\ ~Called(t, "up_addrenv_restore")
                 /\ activeenv[t] = "caller"
       /\ Count(log[t], {"kmm_free"}) = 1
       /\ Count(log[t], {"sched_releasetcb"}) = 0
       /\ ~Called(t, "task_init")
       /\ ~Called(t, "task_activate")
       /\ StackFrees(log[t]) = 0
       /\ tcb[t].mem = "freed"
       /\ tcbcount = 0
       /\ stackcount = 0

\* a call whose stack allocation failed after its environment was
\* selected, and which has restored the caller's environment and returned
C15_Witness ==
  \E t \in Launchers :
    /\ Returned(t)
    /\ failstep[t] = "kumm_malloc"
    /\ SelectSucceeded(t)
    /\ unwindrestore[t] = "ok"
    /\ activeenv[t] = "caller"
    /\ tcbcount = 0

\* C16: when up_addrenv_select() fails, the only undo is the free of the
\* TCB: up_addrenv_restore() is not called, the user heap is not
\* initialised, no stack is allocated or freed, and the environment that
\* was active before the call is still active.
C16_SelectFailure ==
  \A t \in Launchers :
    (Unwound(t) /\ failstep[t] = "up_addrenv_select")
    => /\ SubSeq(log[t], 1, 3) = <<"kmm_zalloc", "up_addrenv_select", "kmm_free">>
       /\ \A i \in 4..Len(log[t]) : log[t][i] = "set_errno"
       /\ unwindrestore[t] = "none"
       /\ ~heapinit[t]
       /\ ~stack[t]
       /\ stackcount = 0
       /\ tcbcount = 0
       /\ activeenv[t] = "caller"
       /\ Returned(t) => retval[t] = ERROR /\ errno[t] = 0 - diag[t]

\* a call that has returned after up_addrenv_select() failed with -EIO
C16_Witness ==
  \E t \in Launchers :
    /\ Returned(t)
    /\ failstep[t] = "up_addrenv_select"
    /\ diag[t] = -5
    /\ errno[t] = 5
    /\ tcb[t].mem = "freed"

\* C17: when a failed launch that had allocated a TCB has been unwound,
\* the TCB has been released exactly once, by one mechanism: kmm_free()
\* after a failure of up_addrenv_select() or of the stack allocation,
\* sched_releasetcb() after a failure of task_init() or of a later step.
C17_TcbReleasedOnceByOneMechanism ==
  \A t \in Launchers :
    (Unwound(t) /\ ValidArg(t) /\ tcb[t].mem # "none")
    => LET all == log[t] \o tasklog[t]
       IN  /\ TcbFrees(all) = 1
           /\ failstep[t] \in {"up_addrenv_select", "kumm_malloc"}
              => Count(all, {"kmm_free"}) = 1
           /\ failstep[t] \in {"task_init", "up_addrenv_clone", "task_activate",
                               "up_addrenv_restore"}
              => Count(all, {"sched_releasetcb"}) = 1

\* the collaborator operations a launch acquires or builds something with
AcquireCalls ==
  {"kmm_zalloc", "up_addrenv_select", "kumm_malloc", "task_init",
   "up_addrenv_clone", "task_activate"}

ErrorLabels ==
  {"errout_with_stack", "errout_with_addrenv", "errout_with_tcb", "errout", "done"}

\* C18: nothing is retried.  Within one call each of kmm_zalloc,
\* up_addrenv_select, kumm_malloc, task_init, up_addrenv_clone and
\* task_activate is called at most once, and once a step has failed the
\* call is on the error path for good: the failed call is the last set-up
\* call of the log.
C18_NothingRetried ==
  \A t \in Launchers :
    /\ \A c \in AcquireCalls : Count(log[t], {c}) <= 1
    /\ failstep[t] # "none" => pc[t] \in ErrorLabels
    /\ failstep[t] \in AcquireCalls
       => \E k \in DOMAIN log[t] :
            /\ log[t][k] = failstep[t]
            /\ \A i \in (k + 1)..Len(log[t]) :
                 log[t][i] \notin AcquireCalls \cup {"umm_initialize", "task_starthook"}

\* a call whose stack allocation failed once and which has returned ENOMEM
C18_Witness ==
  \E t \in Launchers :
    /\ Returned(t)
    /\ failstep[t] = "kumm_malloc"
    /\ Count(log[t], {"kumm_malloc"}) = 1
    /\ errno[t] = ENOMEM

\* the tasks that exist: made ready and not yet exited
LiveTasks == {"ready", "ctors", "entry"}

\* how many calls of launcher t, and of the task it started, are in 'names'
Frees(t, names) ==
  Cardinality({i \in DOMAIN log[t] : log[t][i] \in names})
    + Cardinality({i \in DOMAIN tasklog[t] : tasklog[t][i] \in names})

\* C19: two calls in progress at once, for two images, do not interfere,
\* whatever the interleaving of their steps.  Each call saves and restores
\* only the address environment its own thread had before the call; each
\* returns the pid of the task it activated itself, which differs from the
\* pid of the other call's task while both tasks exist; and the TCB of a
\* call is given back only by a free or release that this call, or the
\* task it started, has made.
C19_ConcurrentCallsDoNotInterfere ==
  \A t \in Concurrent :
    /\ activeenv[t] \in {CallerEnv(t), "image"}
    /\ oldenv[t] \in {"none", CallerEnv(t)}
    /\ ((failstep[t] = "none" /\ pc[t] \in {"return", "done"}) \/ unwindrestore[t] = "ok")
         => activeenv[t] = CallerEnv(t)
    /\ pc[t] \in {"restore", "return"} => pid[t] = actpid[t]
    /\ (Returned(t) /\ failstep[t] = "none")
         => /\ retval[t] = actpid[t]
            /\ \A u \in Concurrent \ {t} :
                 (task[t] \in LiveTasks /\ task[u] \in LiveTasks) => actpid[u] # retval[t]
    /\ tcb[t].mem = "freed" => Frees(t, TcbFreeCalls) > 0

====
